---- MODULE Spec2Model ----
(***************************************************************************)
(* `now domains add <domain> <project>`: the add command of                *)
(* packages/now-cli/src/commands/domains/add.ts as a state machine.        *)
(* One action per stretch of code between two awaits: an action consumes   *)
(* the answer of the call that was awaited, runs the code that follows it  *)
(* and either returns / throws or issues the next external call.           *)
(***************************************************************************)
EXTENDS Naturals, Sequences, FiniteSets

VARIABLES
    args,           \* the positional arguments (strings)
    force,          \* opts['--force']
    pc,             \* where the run is: the call it awaits, or how it ended
    contextName,    \* let contextName (set from getScope's answer)
    aliasTarget,    \* let aliasTarget (the latest addDomainToProject answer)
    output,         \* everything printed, in order
    returned,       \* <<>> while running, <<code>> once add has returned
    thrown,         \* <<>>, or <<err>> once add has rethrown a getScope error
    calls,          \* the external calls made so far, in order
    answers,        \* the answer each completed call got (parallel to calls)
    owner,          \* platform side: the project id the domain is bound to
    initialOwner,   \* owner when the run started
    domainResponse, \* const domainResponse (getDomain's answer)
    twin            \* <<>>, or <<r>>: the record r of an earlier run on the
                    \* same inputs (used by TwinSpec only)

vars == <<args, force, pc, contextName, aliasTarget, output, returned, thrown,
          calls, answers, owner, initialOwner, domainResponse, twin>>

----------------------------------------------------------------------------
(* Bounds of the model *)

MaxArgs == 3

----------------------------------------------------------------------------
(* Strings.  A domain string is handled through its '.'-separated labels.  *)

DomainNames == {"example.com", "myapp.now.sh", "now.sh", "localhost", "a..com", ""}

ProjectNames == {"myapp", "other"}

ExtraArgs == {"extra"}

Labels(s) ==
    CASE s = "example.com"  -> <<"example", "com">>
      [] s = "myapp.now.sh" -> <<"myapp", "now", "sh">>
      [] s = "now.sh"       -> <<"now", "sh">>
      [] s = "localhost"    -> <<"localhost">>
      [] s = "a..com"       -> <<"a", "", "com">>
      [] OTHER              -> <<"">>

\* psl.parse(domainName): "error" (parsedDomain.error set), "nodomain"
\* (parsed, but parsedDomain.domain is null) or "ok".
PslSuffixes == {<<"com">>, <<"sh">>, <<"now", "sh">>}

Suffix(l, n) == SubSeq(l, Len(l) - n + 1, Len(l))

PslParse(s) ==
    LET l == Labels(s)
        listed == {n \in 1..Len(l) : Suffix(l, n) \in PslSuffixes}
        tldLen == IF listed = {} THEN 1
                  ELSE CHOOSE n \in listed : \A m \in listed : m <= n
    IN  IF \E i \in 1..Len(l) : l[i] = "" THEN "error"
        ELSE IF Len(l) <= tldLen THEN "nodomain"
        ELSE "ok"

\* domainName === 'now.sh' in place of the suffix test
EndsWithNowSh_Equals(s) == Labels(s) = <<"now", "sh">>

\* domainName.endsWith('.now.sh')
EndsWithNowSh(s) ==
    LET l == Labels(s)
    IN  Len(l) >= 3 /\ Suffix(l, 2) = <<"now", "sh">>

----------------------------------------------------------------------------
(* The platform and the answers of the external calls *)

NoOwner == "none"

ProjectId(p) == IF p = "myapp" THEN "prj_myapp" ELSE "prj_other"

ProjectIds == {ProjectId(p) : p \in ProjectNames} \cup {"prj_third"}

Ok == [isError |-> FALSE, isAPIError |-> FALSE, code |-> "", projectId |-> "",
       message |-> ""]

Err(api, code, pid, msg) ==
    [isError |-> TRUE, isAPIError |-> api, code |-> code, projectId |-> pid,
     message |-> msg]

ConflictMessage(q) ==
    CASE q = "prj_myapp" -> "in use by prj_myapp"
      [] q = "prj_other" -> "in use by prj_other"
      [] OTHER           -> "in use by prj_third"

\* APIError ALIAS_DOMAIN_EXIST carrying the owning project's id
Conflict(q) == Err(TRUE, "ALIAS_DOMAIN_EXIST", q, ConflictMessage(q))
\* the same error when the API leaves the project out
ConflictNoId == Err(TRUE, "ALIAS_DOMAIN_EXIST", "", "in use")
\* an Error that is no APIError but looks like the conflict
PlainConflict(q) == Err(FALSE, "ALIAS_DOMAIN_EXIST", q, "plain error")
Forbidden == Err(TRUE, "FORBIDDEN", "", "forbidden")

\* getScope: resolves { contextName } or throws
ScopeAnswers ==
    {[isError |-> FALSE, code |-> "", message |-> "", contextName |-> c] :
        c \in {"me", "team"}}
    \cup
    {[isError |-> TRUE, code |-> c, message |-> c, contextName |-> ""] :
        c \in {"NOT_AUTHORIZED", "TEAM_DELETED", "ECONNRESET"}}

\* addDomainToProject(client, p, domain) on a platform where the domain is
\* bound to o: the answers it can give, each with the owner it leaves.
addDomainToProject(o, p) ==
    LET me == ProjectId(p)
    IN  (IF o \in {NoOwner, me} THEN {[res |-> Ok, owner |-> me]} ELSE {})
        \cup
        (IF o \notin {NoOwner, me}
         THEN {[res |-> r, owner |-> o] :
                 r \in {Conflict(o), ConflictNoId, PlainConflict(o)}}
         ELSE {})
        \cup
        \* another client takes the free domain first
        (IF o = NoOwner
         THEN {[res |-> Conflict(q), owner |-> q] : q \in ProjectIds \ {me}}
         ELSE {})
        \cup
        (IF o # me THEN {[res |-> Forbidden, owner |-> o]} ELSE {})

\* removeDomainFromProject(client, q, domain)
removeDomainFromProject(o, q) ==
    (IF o = q THEN {[res |-> Ok, owner |-> NoOwner]} ELSE {})
    \cup
    {[res |-> Err(TRUE, "REMOVE_FAILED", "", "remove failed"), owner |-> o]}

\* domainResponse before getDomain has answered
NotFetched ==
    [isError |-> FALSE, message |-> "", verified |-> FALSE,
     nameservers |-> <<>>, intendedNameservers |-> <<>>,
     verificationRecord |-> ""]

\* getDomain(client, contextName, domainName): an Error or the domain
DomainAnswers ==
    {[isError |-> TRUE, message |-> "domain not found", verified |-> FALSE,
      nameservers |-> <<>>, intendedNameservers |-> <<>>,
      verificationRecord |-> ""]}
    \cup
    {[isError |-> FALSE, message |-> "", verified |-> v,
      nameservers |-> <<"ns1.example.com">>,
      intendedNameservers |-> <<"ns1.vercel-dns.com", "ns2.vercel-dns.com">>,
      verificationRecord |-> "abc123"] : v \in BOOLEAN}

----------------------------------------------------------------------------
(* The conditions add branches on *)

\* aliasTarget instanceof Error
IsError(r) == r.isError

\* the conflict signature with the error code misspelt
IsConflict_Misspelt(r) ==
    /\ r.isAPIError
    /\ r.code = "ALIAS_DOMAIN_EXISTS"
    /\ r.projectId # ""

\* the conflict signature without the test of project and project.id
IsConflict_NoProjectCheck(r) ==
    /\ r.isAPIError
    /\ r.code = "ALIAS_DOMAIN_EXIST"

\* the conflict signature without the instanceof APIError test
IsConflict_NotAPIError(r) ==
    /\ r.code = "ALIAS_DOMAIN_EXIST"
    /\ r.projectId # ""

\* lines 81-86: the conflict signature
IsConflict(r) ==
    /\ r.isAPIError
    /\ r.code = "ALIAS_DOMAIN_EXIST"
    /\ r.projectId # ""

\* the forced unbind entered whether or not --force is given
ForceUnbind_IgnoresForce(r, f) == IsError(r) /\ IsConflict(r)

\* the forced unbind entered on --force alone, whatever the bind answered
ForceUnbind_IgnoresAnswer(r, f) == f

\* lines 80-87: the forced unbind is entered
ForceUnbind(r, f) == IsError(r) /\ IsConflict(r) /\ f

\* the catch recognising NOT_AUTHORIZED alone
IsScopeError_OnlyNotAuthorized(e) == e.code = "NOT_AUTHORIZED"

\* line 44
IsScopeError(e) == e.code = "NOT_AUTHORIZED" \/ e.code = "TEAM_DELETED"

----------------------------------------------------------------------------
(* Output and the call log *)

Line(stream, text, data) == [stream |-> stream, text |-> text, data |-> data]

ErrorLine(msg) == Line("error", msg, <<>>)

Call(op, target, domain) == [op |-> op, target |-> target, domain |-> domain]

\* what a call answered, as logged: the value, or the Error, it produced
Answer(isErr, api, code, pid, msg) ==
    [isError |-> isErr, isAPIError |-> api, code |-> code, projectId |-> pid,
     message |-> msg]

domainName == args[1]
projectName == args[2]

\* line 110: console.log of the success message
SuccessLine(d, p) == Line("console", "Success! Domain added to project", <<d, p>>)

\* lines 117 and 166
AssignedLine ==
    Line("log", "The domain will automatically get assigned to your latest production deployment.", <<>>)

\* formatNSTable given the current nameservers first
UnverifiedLines_SwappedTable(d) ==
    << Line("warn", "The domain was added but it is not verified. To verify it, you should either:", <<>>),
       Line("print", "a) Change your domain nameservers to the following intended set: [recommended]", <<>>),
       Line("print", "formatNSTable", <<d.nameservers, d.intendedNameservers>>),
       Line("print", "b) Add a DNS TXT record with the name and value shown below.", <<>>),
       Line("print", "formatDnsTable", << <<"_now", "TXT", d.verificationRecord>> >>),
       Line("print", "We will run a verification for you and you will receive an email upon completion.", <<>>),
       Line("print", "Read more: https://err.sh/now/domain-verification", <<>>) >>

\* lines 131-164: what is printed for a domain that is not verified
UnverifiedLines(d) ==
    << Line("warn", "The domain was added but it is not verified. To verify it, you should either:", <<>>),
       Line("print", "a) Change your domain nameservers to the following intended set: [recommended]", <<>>),
       Line("print", "formatNSTable", <<d.intendedNameservers, d.nameservers>>),
       Line("print", "b) Add a DNS TXT record with the name and value shown below.", <<>>),
       Line("print", "formatDnsTable", << <<"_now", "TXT", d.verificationRecord>> >>),
       Line("print", "We will run a verification for you and you will receive an email upon completion.", <<>>),
       Line("print", "Read more: https://err.sh/now/domain-verification", <<>>) >>

----------------------------------------------------------------------------
(* Initial states: the inputs of one run *)

ArgLists ==
    UNION { { a \in [1..n -> DomainNames \cup ProjectNames \cup ExtraArgs] :
                /\ n >= 1 => a[1] \in DomainNames
                /\ n >= 2 => a[2] \in ProjectNames
                /\ \A i \in 3..n : a[i] \in ExtraArgs } : n \in 0..MaxArgs }

Init ==
    /\ args \in ArgLists
    /\ force \in BOOLEAN
    /\ owner \in {NoOwner} \cup ProjectIds
    /\ initialOwner = owner
    /\ pc = "start"
    /\ contextName = ""
    /\ aliasTarget = Ok
    /\ output = <<>>
    /\ returned = <<>>
    /\ thrown = <<>>
    /\ calls = <<>>
    /\ answers = <<>>
    /\ domainResponse = NotFetched
    /\ twin = <<>>

----------------------------------------------------------------------------
(* How a stretch of code ends *)

\* return code, after printing
Returns(code, out) ==
    /\ pc' = "returned"
    /\ returned' = <<code>>
    /\ output' = out
    /\ calls' = calls

\* the next external call is issued and awaited
Awaits(call, out) ==
    /\ pc' = call.op
    /\ returned' = returned
    /\ output' = out
    /\ calls' = Append(calls, call)

\* lines 52-74: the checks on the arguments
Validate(a) ==
    IF Len(a) # 2 THEN "usage"
    ELSE IF PslParse(a[1]) = "error" THEN "invalid"
    ELSE IF PslParse(a[1]) = "nodomain" THEN "notvalid"
    ELSE "ok"

ValidationLine(v, a) ==
    CASE v = "usage"    -> Line("error", "now domains add <domain> <project> expects two arguments.", <<>>)
      [] v = "invalid"  -> Line("error", "The provided domain name is invalid.", <<a[1]>>)
      [] v = "notvalid" -> Line("error", "The provided domain is not valid.", <<a[1]>>)

\* lines 109-123: the domain is added; report it and look at its verification
Added(out) ==
    LET o1 == Append(out, SuccessLine(domainName, projectName))
    IN  IF EndsWithNowSh(domainName)
        THEN Returns(0, Append(o1, AssignedLine))
        ELSE Awaits(Call("getDomain", contextName, domainName), o1)

\* the error is printed but the run returns 0
Failed_ReturnsZero(err, out) == Returns(0, Append(out, ErrorLine(err.message)))

\* the error is printed and, the return missing, the run goes on as if added
Failed_FallsThrough(err, out) == Added(Append(out, ErrorLine(err.message)))

\* lines 103-106
Failed(err, out) == Returns(1, Append(out, ErrorLine(err.message)))

----------------------------------------------------------------------------
(* The actions *)

\* lines 30-42: add starts and awaits getScope(client)
Start ==
    /\ pc = "start"
    /\ Awaits(Call("getScope", "", ""), output)
    /\ UNCHANGED <<args, force, contextName, aliasTarget, thrown, answers,
                   owner, initialOwner, domainResponse, twin>>

\* lines 42-78: getScope answers; the arguments are checked; the first bind
GetScopeReturns ==
    /\ pc = "getScope"
    /\ \E ans \in ScopeAnswers :
         /\ answers' = Append(answers, Answer(ans.isError, FALSE, ans.code, "", ans.message))
         /\ IF ans.isError
            THEN /\ contextName' = contextName
                 /\ IF IsScopeError(ans)
                    THEN Returns(1, Append(output, ErrorLine(ans.message)))
                         /\ thrown' = thrown
                    ELSE /\ pc' = "thrown"
                         /\ thrown' = <<ans>>
                         /\ UNCHANGED <<output, returned, calls>>
            ELSE /\ contextName' = ans.contextName
                 /\ thrown' = thrown
                 /\ IF Validate(args) # "ok"
                    THEN Returns(1, Append(output, ValidationLine(Validate(args), args)))
                    ELSE Awaits(Call("addDomainToProject", projectName, domainName), output)
    /\ UNCHANGED <<args, force, aliasTarget, owner, initialOwner,
                   domainResponse, twin>>

\* the unbind addressed to the project named on the command line
AddDomainReturns_UnbindsTarget ==
    /\ pc = "addDomainToProject"
    /\ Len(calls) = 2
    /\ \E a \in addDomainToProject(owner, projectName) :
         /\ aliasTarget' = a.res
         /\ owner' = a.owner
         /\ answers' = Append(answers, a.res)
         /\ IF ForceUnbind(a.res, force)
            THEN Awaits(Call("removeDomainFromProject", projectName, domainName), output)
            ELSE IF IsError(a.res)
            THEN Failed(a.res, output)
            ELSE Added(output)
    /\ UNCHANGED <<args, force, contextName, thrown, initialOwner,
                   domainResponse, twin>>

\* lines 78-123: the first addDomainToProject answers
AddDomainReturns ==
    /\ pc = "addDomainToProject"
    /\ Len(calls) = 2
    /\ \E a \in addDomainToProject(owner, projectName) :
         /\ aliasTarget' = a.res
         /\ owner' = a.owner
         /\ answers' = Append(answers, a.res)
         /\ IF ForceUnbind(a.res, force)
            THEN Awaits(Call("removeDomainFromProject", a.res.projectId, domainName), output)
            ELSE IF IsError(a.res)
            THEN Failed(a.res, output)
            ELSE Added(output)
    /\ UNCHANGED <<args, force, contextName, thrown, initialOwner,
                   domainResponse, twin>>

\* the unbind error is printed and, the return missing, the bind is retried
RemoveDomainReturns_NoReturn ==
    /\ pc = "removeDomainFromProject"
    /\ \E a \in removeDomainFromProject(owner, calls[Len(calls)].target) :
         /\ owner' = a.owner
         /\ answers' = Append(answers, a.res)
         /\ Awaits(Call("addDomainToProject", projectName, domainName),
                   IF IsError(a.res)
                   THEN Append(output, ErrorLine(a.res.message))
                   ELSE output)
    /\ UNCHANGED <<args, force, contextName, aliasTarget, thrown, initialOwner,
                   domainResponse, twin>>

\* lines 88-99: removeDomainFromProject answers; on success the bind is retried
RemoveDomainReturns ==
    /\ pc = "removeDomainFromProject"
    /\ \E a \in removeDomainFromProject(owner, calls[Len(calls)].target) :
         /\ owner' = a.owner
         /\ answers' = Append(answers, a.res)
         /\ IF IsError(a.res)
            THEN Failed(a.res, output)
            ELSE Awaits(Call("addDomainToProject", projectName, domainName), output)
    /\ UNCHANGED <<args, force, contextName, aliasTarget, thrown, initialOwner,
                   domainResponse, twin>>

\* the retry handled like the first bind: a second conflict is unbound again
RetryReturns_Loops ==
    /\ pc = "addDomainToProject"
    /\ Len(calls) > 2
    /\ \E a \in addDomainToProject(owner, projectName) :
         /\ aliasTarget' = a.res
         /\ owner' = a.owner
         /\ answers' = Append(answers, a.res)
         /\ IF ForceUnbind(a.res, force)
            THEN Awaits(Call("removeDomainFromProject", a.res.projectId, domainName), output)
            ELSE IF IsError(a.res)
            THEN Failed(a.res, output)
            ELSE Added(output)
    /\ UNCHANGED <<args, force, contextName, thrown, initialOwner,
                   domainResponse, twin>>

\* a failed retry rolled back: the domain is bound to its previous project
RetryReturns_RollsBack ==
    /\ pc = "addDomainToProject"
    /\ Len(calls) > 2
    /\ \E a \in addDomainToProject(owner, projectName) :
         /\ aliasTarget' = a.res
         /\ owner' = a.owner
         /\ answers' = Append(answers, a.res)
         /\ IF IsError(a.res) /\ Len(calls) = 4
            THEN Awaits(Call("addDomainToProject", calls[3].target, domainName),
                        Append(output, ErrorLine(a.res.message)))
            ELSE IF IsError(a.res)
            THEN Failed(a.res, output)
            ELSE Added(output)
    /\ UNCHANGED <<args, force, contextName, thrown, initialOwner,
                   domainResponse, twin>>

\* lines 99-123: the second addDomainToProject answers
RetryReturns ==
    /\ pc = "addDomainToProject"
    /\ Len(calls) > 2
    /\ \E a \in addDomainToProject(owner, projectName) :
         /\ aliasTarget' = a.res
         /\ owner' = a.owner
         /\ answers' = Append(answers, a.res)
         /\ IF IsError(a.res)
            THEN Failed(a.res, output)
            ELSE Added(output)
    /\ UNCHANGED <<args, force, contextName, thrown, initialOwner,
                   domainResponse, twin>>

\* lines 123-171: getDomain answers
GetDomainReturns ==
    /\ pc = "getDomain"
    /\ \E d \in DomainAnswers :
         /\ answers' = Append(answers, Answer(d.isError, FALSE, "", "", d.message))
         /\ domainResponse' = d
         /\ IF d.isError
            THEN Returns(1, Append(output, ErrorLine(d.message)))
            ELSE IF ~d.verified
            THEN Returns(0, output \o UnverifiedLines(d))
            ELSE Returns(0, Append(output, AssignedLine))
    /\ UNCHANGED <<args, force, contextName, aliasTarget, thrown, owner,
                   initialOwner, twin>>

Next ==
    \/ Start
    \/ GetScopeReturns
    \/ AddDomainReturns
    \/ RemoveDomainReturns
    \/ RetryReturns
    \/ GetDomainReturns

Spec == Init /\ [][Next]_vars

----------------------------------------------------------------------------
(* Two runs of add on the same arguments, the same platform state and the  *)
(* same answers of the external services, one with --force and one without *)

Final == pc \in {"returned", "thrown"}

\* what a finished run did
RunRecord ==
    [calls |-> calls, answers |-> answers, output |-> output,
     returned |-> returned, thrown |-> thrown, contextName |-> contextName,
     domainResponse |-> domainResponse]

\* add is run again, with the other value of --force
Restart ==
    /\ Final
    /\ twin = <<>>
    /\ twin' = <<RunRecord>>
    /\ force' = ~force
    /\ owner' = initialOwner
    /\ pc' = "start"
    /\ contextName' = ""
    /\ aliasTarget' = Ok
    /\ output' = <<>>
    /\ returned' = <<>>
    /\ thrown' = <<>>
    /\ calls' = <<>>
    /\ answers' = <<>>
    /\ domainResponse' = NotFetched
    /\ UNCHANGED <<args, initialOwner>>

\* the second run is answered as the first was, as far as the first went
Replays ==
    twin # <<>> =>
        /\ Len(answers') <= Len(twin[1].answers) =>
              answers' = SubSeq(twin[1].answers, 1, Len(answers'))
        /\ contextName' \in {"", twin[1].contextName}
        /\ domainResponse' \in {NotFetched, twin[1].domainResponse}

TwinNext ==
    \/ Start /\ Replays
    \/ GetScopeReturns /\ Replays
    \/ AddDomainReturns /\ Replays
    \/ RemoveDomainReturns /\ Replays
    \/ RetryReturns /\ Replays
    \/ GetDomainReturns /\ Replays
    \/ Restart

TwinSpec == Init /\ [][TwinNext]_vars

----------------------------------------------------------------------------
(* Every awaited call returns and the code after it runs *)

FairSpec == Spec /\ WF_vars(Next)

----------------------------------------------------------------------------
(* What the properties speak about *)

CallsTo(op) == {i \in 1..Len(calls) : calls[i].op = op}

BindCalls == Cardinality(CallsTo("addDomainToProject"))
UnbindCalls == Cardinality(CallsTo("removeDomainFromProject"))
FetchCalls == Cardinality(CallsTo("getDomain"))

\* the i-th call has been answered, and by an Error
Answered(i) == i <= Len(answers)
FailedCall(i) == Answered(i) /\ answers[i].isError

\* the answer is an APIError ALIAS_DOMAIN_EXIST that names a project
ConflictSignature(r) ==
    /\ r.isError
    /\ r.isAPIError
    /\ r.code = "ALIAS_DOMAIN_EXIST"
    /\ r.projectId # ""

\* the first bind (the second call of a run) answered the conflict signature
FirstBindConflicts == Answered(2) /\ ConflictSignature(answers[2])

ErrorLines == SelectSeq(output, LAMBDA l : l.stream = "error")

SuccessPrinted == \E i \in 1..Len(output) : output[i].stream = "console"

\* the domain names of DomainNames that end in '.now.sh'
NowShNames == {"myapp.now.sh"}

----------------------------------------------------------------------------
(* C1 *)

\* C1, as stated: when the first bind answers the conflict signature and
\* --force is set, a finished run has made exactly one unbind call followed
\* by exactly one rebind call, and when both succeeded it has exited 0 with
\* the verification fetched.
C1_OneUnbindOneRebind ==
    (FirstBindConflicts /\ force /\ pc = "returned") =>
        /\ UnbindCalls = 1
        /\ BindCalls = 2
        /\ (~FailedCall(3) /\ ~FailedCall(4)) =>
               (returned = <<0>> /\ FetchCalls = 1)

\* C1, amended: when the first bind answers the conflict signature and
\* --force is set, exactly one unbind call is made, right after the first
\* bind; if it fails the run exits 1 with no rebind; if it succeeds exactly
\* one rebind follows it; and if the rebind succeeds too the success message
\* is printed and verification reporting is entered: a '.now.sh' name exits 0
\* with no fetch, any other name is fetched exactly once and the run exits 0
\* unless the fetch fails, and 1 if it does.
C1_ForcedUnbindThenRebind ==
    (FirstBindConflicts /\ force) =>
        /\ UnbindCalls = 1
        /\ Len(calls) >= 3 /\ calls[3].op = "removeDomainFromProject"
        /\ FailedCall(3) =>
               (BindCalls = 1 /\ Len(calls) = 3 /\ returned = <<1>>)
        /\ (Answered(3) /\ ~FailedCall(3)) =>
               (BindCalls = 2 /\ calls[4].op = "addDomainToProject")
        /\ (Answered(4) /\ ~FailedCall(3) /\ ~FailedCall(4)) =>
               /\ SuccessPrinted
               /\ IF domainName \in NowShNames
                  THEN returned = <<0>> /\ FetchCalls = 0
                  ELSE /\ FetchCalls = 1
                       /\ Answered(5) =>
                            returned = IF FailedCall(5) THEN <<1>> ELSE <<0>>

\* a forced unbind and rebind that both succeeded, verification fetched, exit 0
C1_Witness ==
    /\ FirstBindConflicts /\ force
    /\ Len(answers) = 5 /\ ~FailedCall(3) /\ ~FailedCall(4)
    /\ returned = <<0>>

----------------------------------------------------------------------------
(* C2 *)

\* C2: when the first bind answers the conflict signature and --force is not
\* set, the run exits 1, the one error message printed is the message of
\* that conflict error, unbind is never called and bind is not called again.
C2_ConflictWithoutForce ==
    (FirstBindConflicts /\ ~force) =>
        /\ returned = <<1>>
        /\ ErrorLines = <<ErrorLine(answers[2].message)>>
        /\ ~SuccessPrinted
        /\ UnbindCalls = 0
        /\ BindCalls = 1
        /\ Len(calls) = 2

C2_Witness ==
    FirstBindConflicts /\ ~force /\ pc = "returned"

----------------------------------------------------------------------------
(* C3 *)

\* the rebind: a bind call made after an unbind call
IsRebind(i) ==
    /\ i \in CallsTo("addDomainToProject")
    /\ \E j \in CallsTo("removeDomainFromProject") : j < i

\* C3: bind is called at most twice and unbind at most once; when the rebind
\* after a forced unbind fails, with a conflict or any other error, the run
\* exits 1, the one error message printed is that of the rebind error, and
\* the rebind is the last call made.
C3_BoundedRetry ==
    /\ BindCalls <= 2
    /\ UnbindCalls <= 1
    /\ \A i \in 1..Len(calls) :
         (IsRebind(i) /\ FailedCall(i)) =>
             /\ returned = <<1>>
             /\ ErrorLines = <<ErrorLine(answers[i].message)>>
             /\ Len(calls) = i

\* a rebind answered by a second conflict
C3_Witness ==
    /\ pc = "returned"
    /\ \E i \in 1..Len(answers) : IsRebind(i) /\ ConflictSignature(answers[i])

----------------------------------------------------------------------------
(* C4 *)

\* the domain argument is one the validator rejects
Malformed == Len(args) = 2 /\ PslParse(args[1]) # "ok"

\* C4: for a malformed domain string the run makes no external call at all
\* (no getScope, bind, unbind or getDomain) and ends at validation: it does
\* not end by a propagated error, and it returns 1.
C4_MalformedMakesNoCall ==
    Malformed =>
        /\ calls = <<>>
        /\ pc # "thrown"
        /\ pc = "returned" => returned = <<1>>

----------------------------------------------------------------------------
(* C5 *)

\* C5: with a number of positional arguments other than two the run makes no
\* external call at all and returns 1.
C5_UsageErrorMakesNoCall ==
    Len(args) # 2 =>
        /\ Len(calls) = 0
        /\ pc \in {"start", "returned"}
        /\ pc = "returned" => returned = <<1>>

----------------------------------------------------------------------------
(* C6 *)

\* the lines printed for an unverified domain are in the output
InstructionsPrinted == \E i \in 1..Len(output) : output[i].text = "formatNSTable"

\* C6: a run that has returned either printed the success message (with the
\* verification instructions when the fetched domain is unverified) and no
\* error message, or printed exactly one error message and no success
\* message.
C6_NoPartialSuccess ==
    pc = "returned" =>
        \/ /\ SuccessPrinted
           /\ ErrorLines = <<>>
        \/ /\ Len(ErrorLines) = 1
           /\ ~SuccessPrinted

----------------------------------------------------------------------------
(* C7 *)

\* the last bind call made so far has answered an Error
LastBindFailed ==
    \E i \in CallsTo("addDomainToProject") :
        /\ FailedCall(i)
        /\ \A j \in CallsTo("addDomainToProject") : j <= i

\* an answered Error the run does not recover from: any but the forced
\* conflict of the first bind and the getScope errors add rethrows
Unrecovered(i) ==
    /\ FailedCall(i)
    /\ ~(i = 2 /\ ConflictSignature(answers[2]) /\ force)
    /\ ~(i = 1 /\ answers[1].code \notin {"NOT_AUTHORIZED", "TEAM_DELETED"})

\* the arguments fail the checks made once the scope is resolved
ValidationFails ==
    /\ Answered(1) /\ ~FailedCall(1)
    /\ Len(args) # 2 \/ Malformed

\* the two outcomes that end in success
OutcomeAssigned == output[Len(output)] = AssignedLine
OutcomePending ==
    /\ InstructionsPrinted
    /\ output[Len(output)].stream = "print"

\* C7: the run returns 1 on a validation failure, on NOT_AUTHORIZED or
\* TEAM_DELETED, on a conflict left unresolved, and on a failed unbind,
\* rebind or verification fetch; it returns 0 exactly on the two success
\* outcomes (assigned, or added and pending verification), and never when
\* the last bind call answered an Error.
C7_ExitCodes ==
    /\ returned \in {<<>>, <<0>>, <<1>>}
    /\ pc = "returned" <=> returned # <<>>
    /\ ValidationFails => returned = <<1>>
    /\ \A i \in 1..Len(answers) : Unrecovered(i) => returned = <<1>>
    /\ LastBindFailed => returned # <<0>>
    /\ returned = <<0>> =>
          /\ SuccessPrinted
          /\ ErrorLines = <<>>
          /\ OutcomeAssigned \/ OutcomePending
    /\ returned = <<1>> =>
          \/ ValidationFails
          \/ \E i \in 1..Len(answers) : Unrecovered(i)

\* the verification fetch fails after a forced rebind: exit 1
C7_Witness ==
    /\ returned = <<1>>
    /\ Len(answers) = 5 /\ FailedCall(5)

----------------------------------------------------------------------------
(* C8 *)

\* the domain was bound to the project add targets when the run started
AlreadyBound == Len(args) = 2 /\ initialOwner = ProjectId(args[2])

----------------------------------------------------------------------------
(* C9 *)

\* C9: for a domain name ending in '.now.sh' getDomain is never called;
\* once a bind (the first, or the forced rebind) has answered success the
\* run has returned 0 and the last line printed reports the automatic
\* assignment.
C9_NowShSkipsFetch ==
    (Len(args) = 2 /\ args[1] \in NowShNames) =>
        /\ FetchCalls = 0
        /\ pc # "getDomain"
        /\ \A i \in CallsTo("addDomainToProject") :
              (Answered(i) /\ ~FailedCall(i)) =>
                  /\ returned = <<0>>
                  /\ SuccessPrinted
                  /\ output[Len(output)] = AssignedLine
                  /\ ~InstructionsPrinted

\* a '.now.sh' name added by a forced rebind
C9_Witness ==
    /\ Len(args) = 2 /\ args[1] \in NowShNames
    /\ Len(answers) = 4 /\ ~FailedCall(4)
    /\ returned = <<0>>

----------------------------------------------------------------------------
(* C10 *)

\* C10: when getScope fails with NOT_AUTHORIZED or TEAM_DELETED the run
\* prints that error's message, returns 1 and makes no further call; when
\* it fails with another error, add rethrows it: nothing is printed, no
\* exit code is returned and no further call is made.
C10_ScopeFailures ==
    FailedCall(1) =>
        /\ calls = <<Call("getScope", "", "")>>
        /\ BindCalls = 0 /\ UnbindCalls = 0 /\ FetchCalls = 0
        /\ IF answers[1].code \in {"NOT_AUTHORIZED", "TEAM_DELETED"}
           THEN /\ pc = "returned"
                /\ returned = <<1>>
                /\ output = <<ErrorLine(answers[1].message)>>
                /\ thrown = <<>>
           ELSE /\ pc = "thrown"
                /\ Len(thrown) = 1
                /\ thrown[1].code = answers[1].code
                /\ thrown[1].message = answers[1].message
                /\ output = <<>>
                /\ returned = <<>>

\* an unrecognised getScope error, propagated
C10_Witness ==
    pc = "thrown" /\ FailedCall(1)

----------------------------------------------------------------------------
(* C11 *)

\* C11: whenever unbind answers an Error the run returns 1, the one error
\* message printed is the unbind error's, and the unbind is the last call of
\* the run: no rebind and no getDomain follow it.
C11_UnbindFailureIsTerminal ==
    \A i \in CallsTo("removeDomainFromProject") :
        FailedCall(i) =>
            /\ pc = "returned"
            /\ returned = <<1>>
            /\ ErrorLines = <<ErrorLine(answers[i].message)>>
            /\ ~SuccessPrinted
            /\ Len(calls) = i
            /\ BindCalls = 1
            /\ FetchCalls = 0

C11_Witness ==
    /\ pc = "returned"
    /\ \E i \in CallsTo("removeDomainFromProject") : FailedCall(i)

----------------------------------------------------------------------------
(* C12 *)

\* C12: unbind is called only if the first bind answered an APIError
\* ALIAS_DOMAIN_EXIST that carries a project id and --force is set; when the
\* first bind fails in any other way (another code, no project id, not an
\* APIError) the run returns 1 with that error's message as the one error
\* printed, no unbind and no second bind, --force or not.
C12_ConflictGating ==
    /\ UnbindCalls > 0 => (FirstBindConflicts /\ force)
    /\ (FailedCall(2) /\ ~ConflictSignature(answers[2])) =>
          /\ returned = <<1>>
          /\ ErrorLines = <<ErrorLine(answers[2].message)>>
          /\ ~SuccessPrinted
          /\ UnbindCalls = 0
          /\ BindCalls = 1
          /\ Len(calls) = 2

\* --force, and ALIAS_DOMAIN_EXIST without a project id
C12_Witness ==
    /\ force
    /\ FailedCall(2)
    /\ answers[2].code = "ALIAS_DOMAIN_EXIST" /\ answers[2].projectId = ""
    /\ answers[2].isAPIError
    /\ pc = "returned"

----------------------------------------------------------------------------
(* C13 *)

\* C13: getDomain is called at most once, and only right after a bind call
\* (the first bind or the rebind) that answered success, which is the last
\* bind of the run; it is never called when the last bind answered an Error.
C13_FetchOnlyAfterSuccessfulBind ==
    /\ FetchCalls <= 1
    /\ \A i \in CallsTo("getDomain") :
          /\ i > 1
          /\ (i - 1) \in CallsTo("addDomainToProject")
          /\ Answered(i - 1) /\ ~FailedCall(i - 1)
          /\ \A j \in CallsTo("addDomainToProject") : j < i
    /\ LastBindFailed => FetchCalls = 0

\* the fetch made after a forced rebind
C13_Witness ==
    /\ Len(calls) = 5
    /\ calls[5].op = "getDomain"
    /\ calls[4].op = "addDomainToProject"

----------------------------------------------------------------------------
(* C14 *)

HasLine(text) == \E i \in 1..Len(output) : output[i].text = text

\* the nameserver table of the intended and the current nameservers
NSTablePrinted(d) ==
    \E i \in 1..Len(output) :
        /\ output[i].text = "formatNSTable"
        /\ output[i].data = <<d.intendedNameservers, d.nameservers>>

\* the one TXT record named '_now' with the verification value
TXTRecordPrinted(d) ==
    \E i \in 1..Len(output) :
        /\ output[i].text = "formatDnsTable"
        /\ output[i].data = << <<"_now", "TXT", d.verificationRecord>> >>

RecheckNotePrinted ==
    HasLine("We will run a verification for you and you will receive an email upon completion.")

\* C14: after a successful bind of a name that does not end in '.now.sh'
\* getDomain is called; if it answers an Error the run prints that error and
\* returns 1; if the domain is not verified the run prints the nameserver
\* table (intended, then current nameservers), the TXT record '_now' with
\* the verification value and the re-check note, and returns 0; if it is
\* verified the run reports the automatic assignment, prints neither table,
\* and returns 0.
C14_VerificationReporting ==
    (Len(args) = 2 /\ args[1] \notin NowShNames) =>
        /\ \A j \in CallsTo("addDomainToProject") :
              (Answered(j) /\ ~FailedCall(j)) =>
                  (j + 1) \in CallsTo("getDomain")
        /\ \A i \in CallsTo("getDomain") :
              Answered(i) =>
                  IF FailedCall(i)
                  THEN /\ returned = <<1>>
                       /\ ErrorLines = <<ErrorLine(domainResponse.message)>>
                       /\ output[Len(output)] = ErrorLine(answers[i].message)
                       /\ ~HasLine("formatNSTable") /\ ~HasLine("formatDnsTable")
                  ELSE IF ~domainResponse.verified
                  THEN /\ returned = <<0>>
                       /\ NSTablePrinted(domainResponse)
                       /\ TXTRecordPrinted(domainResponse)
                       /\ RecheckNotePrinted
                       /\ ErrorLines = <<>>
                       /\ \A k \in 1..Len(output) : output[k].stream # "log"
                  ELSE /\ returned = <<0>>
                       /\ output[Len(output)] = AssignedLine
                       /\ ErrorLines = <<>>
                       /\ ~HasLine("formatNSTable") /\ ~HasLine("formatDnsTable")
                       /\ ~RecheckNotePrinted

\* an unverified domain reported, exit 0
C14_Witness ==
    /\ returned = <<0>>
    /\ FetchCalls = 1
    /\ ~domainResponse.verified
    /\ domainResponse.verificationRecord = "abc123"

----------------------------------------------------------------------------
(* C15 *)

\* C15: the unbind call is addressed to the project id carried by the first
\* bind's error, which is not the project named on the command line, with
\* the domain name of the command line; the rebind is the same call as the
\* first bind: (project name, domain name) of the command line.
C15_CallTargets ==
    /\ \A i \in CallsTo("removeDomainFromProject") :
          /\ calls[i].target = answers[2].projectId
          /\ calls[i].target # args[2]
          /\ calls[i].target # ProjectId(args[2])
          /\ calls[i].domain = args[1]
    /\ \A i \in CallsTo("addDomainToProject") :
          /\ calls[i] = Call("addDomainToProject", args[2], args[1])
          /\ calls[i] = calls[2]

\* the rebind has been issued
C15_Witness ==
    /\ Len(calls) >= 4
    /\ calls[3].op = "removeDomainFromProject"
    /\ calls[4].op = "addDomainToProject"

----------------------------------------------------------------------------
(* C16 *)

\* the forced unbind succeeded and the rebind then failed
RebindFailedAfterUnbind ==
    /\ force
    /\ Answered(3) /\ calls[3].op = "removeDomainFromProject" /\ ~FailedCall(3)
    /\ FailedCall(4)

----------------------------------------------------------------------------
(* C17 *)

\* in the recorded run the first bind answered, and not the conflict signature
TwinWithoutConflict ==
    /\ twin # <<>>
    /\ Len(twin[1].answers) >= 2
    /\ ~ConflictSignature(twin[1].answers[2])

\* C17: of two runs on the same arguments and the same answers that differ
\* in --force only, in which the first bind succeeds or fails without the
\* conflict signature: the second run can always take its next step with
\* the answers of the first, and once finished it has made the same calls
\* in the same order, printed the same lines and ended the same way with
\* the same exit code.
C17_ForceOnlyOnConflict ==
    TwinWithoutConflict =>
        /\ ~Final => ENABLED TwinNext
        /\ Final =>
              /\ calls = twin[1].calls
              /\ answers = twin[1].answers
              /\ output = twin[1].output
              /\ returned = twin[1].returned
              /\ thrown = twin[1].thrown

\* the second run, now with --force, ends on ALIAS_DOMAIN_EXIST without a
\* project id as the run without --force did
C17_Witness ==
    /\ TwinWithoutConflict
    /\ force
    /\ pc = "returned"
    /\ FailedCall(2) /\ answers[2].code = "ALIAS_DOMAIN_EXIST"

----------------------------------------------------------------------------
(* C18 *)

\* the external calls of a run, in the order the code makes them
FixedOrder ==
    <<"getScope", "addDomainToProject", "removeDomainFromProject",
      "addDomainToProject", "getDomain">>

\* the calls made so far are calls of FixedOrder, in that order
CallsInOrder ==
    \E f \in [1..Len(calls) -> 1..Len(FixedOrder)] :
        /\ \A i, j \in 1..Len(calls) : i < j => f[i] < f[j]
        /\ \A i \in 1..Len(calls) : calls[i].op = FixedOrder[f[i]]

\* no call is issued before the one before it has answered
OneOutstanding ==
    /\ Len(answers) <= Len(calls)
    /\ Len(calls) <= Len(answers) + 1
    /\ Len(calls) = Len(answers) + 1 <=> pc \in {FixedOrder[k] : k \in 1..Len(FixedOrder)}
    /\ Final => Len(calls) = Len(answers)

\* C18: when every external call returns, every run ends (it returns 0 or
\* 1, or propagates a getScope error), having made at most five external
\* calls, in the order getScope, bind, unbind, bind, getDomain, with at
\* most one call outstanding at any time.
C18_Termination ==
    /\ [](CallsInOrder /\ OneOutstanding /\ Len(calls) <= Len(FixedOrder))
    /\ <>(Final /\ (pc = "returned" => returned \in {<<0>>, <<1>>}))

\* a run that made all five calls has ended
C18_Witness ==
    /\ Final
    /\ Len(calls) = Len(FixedOrder)

====
